---- MODULE Spec2Model ----
(***************************************************************************)
(* hash-orbit: a consistent hashing ring with virtual nodes.               *)
(*                                                                         *)
(* The ring is a Map<number, string> (position -> physical node), kept in  *)
(* insertion order as a JavaScript Map is, together with sortedKeys, the   *)
(* ascending array of its positions.  hash32 comes from the murmur-hash    *)
(* package: the ring only ever compares the positions it returns, so it is *)
(* modelled as an arbitrary fixed function from the strings the ring can   *)
(* hash to a small position space, collisions included.                    *)
(*                                                                         *)
(* Strings are TLA+ strings: Len is String.length, \o is concatenation.    *)
(***************************************************************************)
EXTENDS Integers, Sequences, FiniteSets, TLC

\* ------------------------------------------------------------------ bounds
\* Positions are 0 .. HashSpace-1 (the code's space is 0 .. 2^32-1): one for
\* each string the largest ring hashes, so that hash32 can be free of
\* collisions as well as have any of them.
HashSpace == 5

\* The maximum length of a node identifier or key.
MAX_LENGTH == 1000

\* ------------------------------------------------------------------ inputs
RECURSIVE Repeat(_, _)
\* String.prototype.repeat
Repeat(s, n) ==
  IF n = 0 THEN ""
  ELSE LET h == Repeat(s, n \div 2)
       IN  IF n % 2 = 0 THEN h \o h ELSE (h \o h) \o s

\* Replica counts the ring is constructed with.
ReplicaOptions == {1, 2}
\* Valid node identifiers.
NodeIds == {"server-1", "server-2"}
\* Valid lookup keys: a key of exactly the maximum length, and a key that is
\* also the name of a virtual node.
ValidKeys == {Repeat("k", MAX_LENGTH), "server-1:0"}
\* Identifiers and keys validation rejects: empty, and one unit too long.
InvalidIds == {"", Repeat("a", MAX_LENGTH + 1)}
NodeInputs == NodeIds \cup InvalidIds
KeyInputs == ValidKeys \cup InvalidIds
\* Counts getN is asked for: none, and up to one more than there are nodes.
Counts == (-1) .. (Cardinality(NodeIds) + 1)
\* getN(key, count) calls: every count with a valid key, and the rejected keys.
GetNInputs == (ValidKeys \X Counts) \cup (InvalidIds \X {0, 1})
Positions == 0 .. (HashSpace - 1)

\* `${node}:${i}`
VirtualKey(node, i) == (node \o ":") \o ToString(i)

\* The hash functions on the strings of D. The code compares positions (sort,
\* binary search) and uses them as map keys, and does nothing else with them,
\* so a hash function is given by the ranks of its values: it maps D onto
\* 0 .. m-1 for some m. Every pattern of equal and ordered hashes is one of
\* these, the collision-free ones included.
HashFunctions(D) ==
  {f \in [D -> Positions] :
     LET image == {f[x] : x \in D} IN image = 0 .. (Cardinality(image) - 1)}
\* The strings a ring with r replicas can pass to hash32.
HashDomain(r) == {VirtualKey(n, i) : n \in NodeIds, i \in 0 .. (r - 1)} \cup ValidKeys

VARIABLES
  ring,        \* Map<number, string>: sequence of [pos, node] in insertion order
  sortedKeys,  \* number[]: the positions of ring, ascending
  replicas,    \* virtual nodes per physical node, fixed at construction
  hash32,      \* the hash function: string -> position
  op           \* the last call made on the ring and what it returned

vars == <<ring, sortedKeys, replicas, hash32, op>>

\* ------------------------------------------------------------ return values
Ret(kind, str, list, num) == [kind |-> kind, str |-> str, list |-> list, num |-> num]
Void == Ret("void", "", <<>>, 0)
Undefined == Ret("undefined", "", <<>>, 0)
Str(s) == Ret("string", s, <<>>, 0)
List(l) == Ret("array", "", l, 0)
Num(n) == Ret("number", "", <<>>, n)
Json(nodes, r) == Ret("json", "", nodes, r)
Error(msg) == Ret("error", msg, <<>>, 0)

\* ------------------------------------------------------------------ Map
MapHas(m, k) == \E i \in 1 .. Len(m) : m[i].pos = k
MapGet(m, k) ==
  IF MapHas(m, k) THEN Str(m[CHOOSE i \in 1 .. Len(m) : m[i].pos = k].node)
  ELSE Undefined
\* Mutant of MapSet: every write adds an entry, as a list of pairs would.
MapSetAppends(m, k, v) == Append(m, [pos |-> k, node |-> v])

\* Mutant of MapSet: a key that is present keeps its value.
MapSetKeepsFirst(m, k, v) ==
  IF MapHas(m, k) THEN m ELSE Append(m, [pos |-> k, node |-> v])

\* Map.prototype.set: an existing key keeps its place, a new key goes last.
MapSet(m, k, v) ==
  IF MapHas(m, k)
  THEN [i \in 1 .. Len(m) |-> IF m[i].pos = k THEN [pos |-> k, node |-> v] ELSE m[i]]
  ELSE Append(m, [pos |-> k, node |-> v])
MapDelete(m, k) == SelectSeq(m, LAMBDA e : e.pos # k)
MapKeys(m) == [i \in 1 .. Len(m) |-> m[i].pos]
MapValues(m) == [i \in 1 .. Len(m) |-> m[i].node]

Elems(s) == {s[i] : i \in 1 .. Len(s)}

RECURSIVE Unique(_)
\* Array.from(new Set(values)): first occurrences, in order.
Unique(s) ==
  IF s = <<>> THEN <<>>
  ELSE LET front == Unique(SubSeq(s, 1, Len(s) - 1))
           last == s[Len(s)]
       IN  IF last \in Elems(front) THEN front ELSE Append(front, last)

RECURSIVE Insert(_, _)
Insert(s, x) ==
  IF s = <<>> THEN <<x>>
  ELSE IF x - s[Len(s)] >= 0 THEN Append(s, x)
  ELSE Append(Insert(SubSeq(s, 1, Len(s) - 1), x), s[Len(s)])

RECURSIVE SortAscending(_)
\* Array.prototype.sort((a, b) => a - b)
SortAscending(s) ==
  IF s = <<>> THEN <<>>
  ELSE Insert(SortAscending(SubSeq(s, 1, Len(s) - 1)), s[Len(s)])

\* ------------------------------------------------------------------ HashOrbit
HashOrbit(m, keys, r) == [ring |-> m, sortedKeys |-> keys, replicas |-> r]
\* new HashOrbit({ replicas })
constructor(r) == HashOrbit(<<>>, <<>>, r)
this == HashOrbit(ring, sortedKeys, replicas)
\* What a call does: the object afterwards and the value returned or thrown.
Outcome(self, ret) == [self |-> self, ret |-> ret]

size(self) == Cardinality(Elems(MapValues(self.ring)))
nodes(self) == Unique(MapValues(self.ring))

validateIdentifier(value, name) ==
  IF Len(value) = 0 THEN Error(name \o " cannot be empty")
  ELSE IF Len(value) > MAX_LENGTH THEN Error(name \o " exceeds maximum length")
  ELSE Void

RECURSIVE addLoopStopsEarly(_, _, _, _)
\* Mutant of addLoop: the last replica index is never placed.
addLoopStopsEarly(m, node, i, r) ==
  IF i < r - 1
  THEN addLoopStopsEarly(MapSet(m, hash32[VirtualKey(node, i)], node), node, i + 1, r)
  ELSE m

RECURSIVE addLoop(_, _, _, _)
addLoop(m, node, i, r) ==
  IF i < r
  THEN addLoop(MapSet(m, hash32[VirtualKey(node, i)], node), node, i + 1, r)
  ELSE m

\* Mutant of add: the keys are copied into the index but not sorted.
addWithoutSort(self, node) ==
  LET check == validateIdentifier(node, "Node identifier") IN
  IF check.kind = "error" THEN Outcome(self, check)
  ELSE LET m == addLoop(self.ring, node, 0, self.replicas)
       IN  Outcome(HashOrbit(m, MapKeys(m), self.replicas), Void)

add(self, node) ==
  LET check == validateIdentifier(node, "Node identifier") IN
  IF check.kind = "error" THEN Outcome(self, check)
  ELSE LET m == addLoop(self.ring, node, 0, self.replicas)
       IN  Outcome(HashOrbit(m, SortAscending(MapKeys(m)), self.replicas), Void)

RECURSIVE removeLoop(_, _, _, _)
removeLoop(m, node, i, r) ==
  IF i < r
  THEN removeLoop(MapDelete(m, hash32[VirtualKey(node, i)]), node, i + 1, r)
  ELSE m

\* Every recomputed position is deleted, whoever owns it.
remove(self, node) ==
  LET check == validateIdentifier(node, "Node identifier") IN
  IF check.kind = "error" THEN Outcome(self, check)
  ELSE LET m == removeLoop(self.ring, node, 0, self.replicas)
       IN  Outcome(HashOrbit(m, SortAscending(MapKeys(m)), self.replicas), Void)

RECURSIVE binarySearchLoop(_, _, _, _)
binarySearchLoop(keys, target, left, right) ==
  IF left < right
  THEN LET mid == (left + right) \div 2
       IN  IF keys[mid + 1] < target
           THEN binarySearchLoop(keys, target, mid + 1, right)
           ELSE binarySearchLoop(keys, target, left, mid)
  ELSE left

\* The index (from 0) of the first element of keys that is >= target, or
\* keys.length when there is none.
binarySearch(keys, target) == binarySearchLoop(keys, target, 0, Len(keys))

\* Mutant of get: past the last position it stays on the last one.
getWithoutWraparound(self, key) ==
  LET check == validateIdentifier(key, "Key") IN
  IF check.kind = "error" THEN Outcome(self, check)
  ELSE IF Len(self.ring) = 0 THEN Outcome(self, Undefined)
  ELSE LET position == hash32[key]
           found == binarySearch(self.sortedKeys, position)
           idx == IF found >= Len(self.sortedKeys) THEN Len(self.sortedKeys) - 1 ELSE found
       IN  Outcome(self, MapGet(self.ring, self.sortedKeys[idx + 1]))

\* Mutant of get: the empty-ring shortcut is taken before the key is validated.
getChecksEmptyFirst(self, key) ==
  LET check == validateIdentifier(key, "Key") IN
  IF Len(self.ring) = 0 THEN Outcome(self, Undefined)
  ELSE IF check.kind = "error" THEN Outcome(self, check)
  ELSE LET position == hash32[key]
           found == binarySearch(self.sortedKeys, position)
           idx == IF found >= Len(self.sortedKeys) THEN 0 ELSE found
       IN  Outcome(self, MapGet(self.ring, self.sortedKeys[idx + 1]))

\* Mutant of get: modulo hashing, the key's hash indexes the list of nodes.
getByModulo(self, key) ==
  LET check == validateIdentifier(key, "Key") IN
  IF check.kind = "error" THEN Outcome(self, check)
  ELSE IF Len(self.ring) = 0 THEN Outcome(self, Undefined)
  ELSE Outcome(self, Str(nodes(self)[(hash32[key] % size(self)) + 1]))

\* Mutant of get: past the last position no position is read.
getUndefinedPastEnd(self, key) ==
  LET check == validateIdentifier(key, "Key") IN
  IF check.kind = "error" THEN Outcome(self, check)
  ELSE IF Len(self.ring) = 0 THEN Outcome(self, Undefined)
  ELSE LET position == hash32[key]
           found == binarySearch(self.sortedKeys, position)
       IN  IF found >= Len(self.sortedKeys) THEN Outcome(self, Undefined)
           ELSE Outcome(self, MapGet(self.ring, self.sortedKeys[found + 1]))

\* Mutant of get: a lookup on an empty ring is reported as an error.
getThrowsOnEmpty(self, key) ==
  LET check == validateIdentifier(key, "Key") IN
  IF check.kind = "error" THEN Outcome(self, check)
  ELSE IF Len(self.ring) = 0 THEN Outcome(self, Error("Ring is empty"))
  ELSE LET position == hash32[key]
           found == binarySearch(self.sortedKeys, position)
           idx == IF found >= Len(self.sortedKeys) THEN 0 ELSE found
       IN  Outcome(self, MapGet(self.ring, self.sortedKeys[idx + 1]))

get(self, key) ==
  LET check == validateIdentifier(key, "Key") IN
  IF check.kind = "error" THEN Outcome(self, check)
  ELSE IF Len(self.ring) = 0 THEN Outcome(self, Undefined)
  ELSE LET position == hash32[key]
           found == binarySearch(self.sortedKeys, position)
           idx == IF found >= Len(self.sortedKeys) THEN 0 ELSE found
       IN  Outcome(self, MapGet(self.ring, self.sortedKeys[idx + 1]))

RECURSIVE getNLoopSkipsStart(_, _, _, _, _)
\* Mutant of getNLoop: idx is advanced before the position is read.
getNLoopSkipsStart(self, count, i, idx, result) ==
  IF i < Len(self.sortedKeys) /\ Len(result) < count
  THEN LET at == IF idx + 1 >= Len(self.sortedKeys) THEN 0 ELSE idx + 1
           node == MapGet(self.ring, self.sortedKeys[at + 1])
       IN  IF node.kind = "string" /\ node.str # "" /\ node.str \notin Elems(result)
           THEN getNLoopSkipsStart(self, count, i + 1, at, Append(result, node.str))
           ELSE getNLoopSkipsStart(self, count, i + 1, at, result)
  ELSE result

RECURSIVE getNLoopStopsEarly(_, _, _, _, _)
\* Mutant of getNLoop: the walk leaves out the last position of the scan.
getNLoopStopsEarly(self, count, i, idx, result) ==
  IF i < Len(self.sortedKeys) - 1 /\ Len(result) < count
  THEN LET at == IF idx >= Len(self.sortedKeys) THEN 0 ELSE idx
           node == MapGet(self.ring, self.sortedKeys[at + 1])
       IN  IF node.kind = "string" /\ node.str # "" /\ node.str \notin Elems(result)
           THEN getNLoopStopsEarly(self, count, i + 1, at + 1, Append(result, node.str))
           ELSE getNLoopStopsEarly(self, count, i + 1, at + 1, result)
  ELSE result

RECURSIVE getNLoopKeepsDuplicates(_, _, _, _, _)
\* Mutant of getNLoop: owners already collected are collected again.
getNLoopKeepsDuplicates(self, count, i, idx, result) ==
  IF i < Len(self.sortedKeys) /\ Len(result) < count
  THEN LET at == IF idx >= Len(self.sortedKeys) THEN 0 ELSE idx
           node == MapGet(self.ring, self.sortedKeys[at + 1])
       IN  IF node.kind = "string" /\ node.str # ""
           THEN getNLoopKeepsDuplicates(self, count, i + 1, at + 1, Append(result, node.str))
           ELSE getNLoopKeepsDuplicates(self, count, i + 1, at + 1, result)
  ELSE result

RECURSIVE getNLoopCounterClockwise(_, _, _, _, _)
\* Mutant of getNLoop: idx steps down, wrapping at the start.
getNLoopCounterClockwise(self, count, i, idx, result) ==
  IF i < Len(self.sortedKeys) /\ Len(result) < count
  THEN LET at == IF idx >= Len(self.sortedKeys) THEN 0 ELSE idx
           back == IF at = 0 THEN Len(self.sortedKeys) - 1 ELSE at - 1
           node == MapGet(self.ring, self.sortedKeys[at + 1])
       IN  IF node.kind = "string" /\ node.str # "" /\ node.str \notin Elems(result)
           THEN getNLoopCounterClockwise(self, count, i + 1, back, Append(result, node.str))
           ELSE getNLoopCounterClockwise(self, count, i + 1, back, result)
  ELSE result

RECURSIVE getNLoop(_, _, _, _, _)
\* The clockwise walk; seen is the set of the elements of result.
getNLoop(self, count, i, idx, result) ==
  IF i < Len(self.sortedKeys) /\ Len(result) < count
  THEN LET at == IF idx >= Len(self.sortedKeys) THEN 0 ELSE idx
           node == MapGet(self.ring, self.sortedKeys[at + 1])
       IN  IF node.kind = "string" /\ node.str # "" /\ node.str \notin Elems(result)
           THEN getNLoop(self, count, i + 1, at + 1, Append(result, node.str))
           ELSE getNLoop(self, count, i + 1, at + 1, result)
  ELSE result

\* Mutant of getN: the empty-ring and count shortcut is taken before the key is
\* validated.
getNShortcutsFirst(self, key, count) ==
  LET check == validateIdentifier(key, "Key") IN
  IF Len(self.ring) = 0 \/ count <= 0 THEN Outcome(self, List(<<>>))
  ELSE IF check.kind = "error" THEN Outcome(self, check)
  ELSE LET position == hash32[key]
           idx == binarySearch(self.sortedKeys, position)
       IN  Outcome(self, List(getNLoop(self, count, 0, idx, <<>>)))

\* Mutant of getN: the walk wraps by rotating the sorted index in place.
getNRotatesIndex(self, key, count) ==
  LET check == validateIdentifier(key, "Key") IN
  IF check.kind = "error" THEN Outcome(self, check)
  ELSE IF Len(self.ring) = 0 \/ count <= 0 THEN Outcome(self, List(<<>>))
  ELSE LET position == hash32[key]
           idx == binarySearch(self.sortedKeys, position)
           rotated == Append(Tail(self.sortedKeys), Head(self.sortedKeys))
       IN  Outcome(HashOrbit(self.ring, rotated, self.replicas),
                   List(getNLoop(self, count, 0, idx, <<>>)))

getN(self, key, count) ==
  LET check == validateIdentifier(key, "Key") IN
  IF check.kind = "error" THEN Outcome(self, check)
  ELSE IF Len(self.ring) = 0 \/ count <= 0 THEN Outcome(self, List(<<>>))
  ELSE LET position == hash32[key]
           idx == binarySearch(self.sortedKeys, position)
       IN  Outcome(self, List(getNLoop(self, count, 0, idx, <<>>)))

toJSON(self) == Outcome(self, Json(nodes(self), self.replicas))

RECURSIVE fromJSONLoop(_, _, _)
fromJSONLoop(self, list, i) ==
  IF i <= Len(list) THEN fromJSONLoop(add(self, list[i]).self, list, i + 1)
  ELSE self

\* static fromJSON(data): a new ring with data.replicas, every node added.
fromJSON(data) == fromJSONLoop(constructor(data.num), data.list, 1)

toString(self) ==
  Outcome(self, Str(((((("HashOrbit(positions=" \o ToString(Len(self.ring)))
                        \o " nodes=") \o ToString(size(self)))
                        \o " replicas=") \o ToString(self.replicas)) \o ")"))

\* ------------------------------------------------------------------ the system
Init ==
  /\ ring = <<>>
  /\ sortedKeys = <<>>
  /\ replicas \in ReplicaOptions
  /\ hash32 \in HashFunctions(HashDomain(replicas))
  /\ op = [name |-> "constructor", arg |-> "", count |-> 0, ret |-> Void]

Call(name, arg, count, out) ==
  /\ ring' = out.self.ring
  /\ sortedKeys' = out.self.sortedKeys
  /\ replicas' = out.self.replicas
  /\ op' = [name |-> name, arg |-> arg, count |-> count, ret |-> out.ret]
  /\ UNCHANGED hash32

Add == \E node \in NodeInputs : Call("add", node, 0, add(this, node))

Remove == \E node \in NodeInputs : Call("remove", node, 0, remove(this, node))

Get == \E key \in KeyInputs : Call("get", key, 0, get(this, key))

GetN == \E call \in GetNInputs : Call("getN", call[1], call[2], getN(this, call[1], call[2]))

Size == Call("size", "", 0, Outcome(this, Num(size(this))))

Nodes == Call("nodes", "", 0, Outcome(this, List(nodes(this))))

ToJSON == Call("toJSON", "", 0, toJSON(this))

\* const restored = HashOrbit.fromJSON(json), json the snapshot just taken:
\* the program carries on with the restored ring.
FromJSON ==
  /\ op.name = "toJSON"
  /\ Call("fromJSON", "", 0, Outcome(fromJSON(op.ret), Void))

ToStringCall == Call("toString", "", 0, toString(this))

Next ==
  \/ Add
  \/ Remove
  \/ Get
  \/ GetN
  \/ Size
  \/ Nodes
  \/ ToJSON
  \/ FromJSON
  \/ ToStringCall

Spec == Init /\ [][Next]_vars

\* ------------------------------------------------------------------ properties
\* The positions of a ring, and the owner of one of them.
PositionsOf(self) == {self.ring[i].pos : i \in 1 .. Len(self.ring)}
OwnerAt(self, p) == (CHOOSE e \in Elems(self.ring) : e.pos = p).node
\* The position-to-owner mapping, whatever the insertion order.
Mapping(self) == Elems(self.ring)
Min(S) == CHOOSE x \in S : \A y \in S : x <= y
Minimum(a, b) == IF a <= b THEN a ELSE b
\* The smallest position >= h, or the smallest position when there is none.
Successor(self, h) ==
  IF \E p \in PositionsOf(self) : p >= h
  THEN Min({p \in PositionsOf(self) : p >= h})
  ELSE Min(PositionsOf(self))
Distinct(s) == \A i, j \in 1 .. Len(s) : i # j => s[i] # s[j]
Routed(self, key) == get(self, key).ret

\* C1: on a non-empty ring, get(key) with a valid key returns the owner of
\* the smallest position >= hash(key), and the owner of the smallest position
\* of the ring when no position is >= hash(key).
C1_GetReturnsSuccessorOwner ==
  (op.name = "get" /\ op.arg \in ValidKeys /\ ring # <<>>)
    => op.ret = Str(OwnerAt(this, Successor(this, hash32[op.arg])))

\* get wrapped around: two nodes in the ring, every position below the key's.
C1_Witness ==
  /\ op.name = "get"
  /\ op.arg \in ValidKeys
  /\ size(this) = 2
  /\ \A p \in PositionsOf(this) : p < hash32[op.arg]
  /\ op.ret = Str(OwnerAt(this, Min(PositionsOf(this))))

\* C2: removing a node remaps only that node's keys: a valid key routed to
\* a node m other than n before remove(n) is routed to m after it.
C2_RemoveRemapsOnlyRemovedNode ==
  \A n \in NodeIds, k \in ValidKeys :
    (Routed(this, k).kind = "string" /\ Routed(this, k).str # n)
      => Routed(remove(this, n).self, k) = Routed(this, k)

\* C3: add is idempotent: right after add(n), a second add(n) leaves the
\* ring as it is, with the same size, nodes, toString() and get(k).
C3_AddIsIdempotent ==
  (op.name = "add" /\ op.ret = Void) =>
    LET again == add(this, op.arg).self IN
      /\ again.ring = ring
      /\ again.sortedKeys = sortedKeys
      /\ size(again) = size(this)
      /\ nodes(again) = nodes(this)
      /\ toString(again).ret = toString(this).ret
      /\ \A k \in ValidKeys : Routed(again, k) = Routed(this, k)

\* add(n) has just run on a ring that holds another node as well, and one of
\* the positions of n is a position the other node was given too.
C3_Witness ==
  /\ op.name = "add"
  /\ op.ret = Void
  /\ size(this) = 2
  /\ \E m \in NodeIds \ {op.arg}, i, j \in 0 .. (replicas - 1) :
        hash32[VirtualKey(m, i)] = hash32[VirtualKey(op.arg, j)]
  /\ add(this, op.arg).self = this

\* C4: full removal: with n absent, add(n) then remove(n) gives back the
\* position-to-owner mapping, the size and the nodes the ring had.
C4_AddThenRemoveRestores ==
  \A n \in NodeIds :
    n \notin Elems(nodes(this)) =>
      LET after == remove(add(this, n).self, n).self IN
        /\ Mapping(after) = Mapping(this)
        /\ size(after) = size(this)
        /\ Elems(nodes(after)) = Elems(nodes(this))

\* C5: round trip: every valid key is routed by fromJSON(toJSON(ring)) as
\* it is by ring.
C5_RoundTripPreservesRouting ==
  \A k \in ValidKeys :
    Routed(fromJSON(toJSON(this).ret), k) = Routed(this, k)

\* C6: on a non-empty ring, with a valid key and count > 0, the first
\* element of getN(key, count) is get(key).
C6_GetNStartsWithGet ==
  (op.name = "getN" /\ op.arg \in ValidKeys /\ op.count > 0 /\ ring # <<>>)
    => /\ Len(op.ret.list) >= 1
       /\ Str(op.ret.list[1]) = Routed(this, op.arg)

\* getN returned two nodes after wrapping around to the first position.
C6_Witness ==
  /\ op.name = "getN"
  /\ op.arg \in ValidKeys
  /\ Len(op.ret.list) = 2
  /\ \A p \in PositionsOf(this) : p < hash32[op.arg]

\* C7: on a non-empty ring, with a valid key and count > 0, getN(key, count)
\* has min(count, size) elements.
C7_GetNLength ==
  (op.name = "getN" /\ op.arg \in ValidKeys /\ op.count > 0 /\ ring # <<>>)
    => Len(op.ret.list) = Minimum(op.count, size(this))

\* getN was asked for more nodes than the ring has, on a ring with more
\* positions than nodes.
C7_Witness ==
  /\ op.name = "getN"
  /\ op.arg \in ValidKeys
  /\ size(this) = 2
  /\ op.count > size(this)
  /\ Len(ring) > size(this)
  /\ Len(op.ret.list) = 2

\* C8: the elements of getN(key, count) are pairwise distinct and each is
\* one of nodes.
C8_GetNDistinctMembers ==
  (op.name = "getN" /\ op.ret.kind = "array")
    => /\ Distinct(op.ret.list)
       /\ Elems(op.ret.list) \subseteq Elems(nodes(this))

\* getN walked past a second position of a node it had already collected.
C8_Witness ==
  /\ op.name = "getN"
  /\ Len(op.ret.list) = 2
  /\ Len(sortedKeys) >= 3
  /\ OwnerAt(this, sortedKeys[1]) = OwnerAt(this, sortedKeys[2])
  /\ hash32[op.arg] <= sortedKeys[1]

\* C9: validation is atomic: add, remove, get and getN with an empty
\* identifier or key, or one longer than MAX_LENGTH, throw the matching error
\* and leave ring and sortedKeys as they were; with any other identifier or
\* key they do not throw.
C9_ValidationIsAtomic ==
  [][op'.name \in {"add", "remove", "get", "getN"} =>
       LET what == IF op'.name \in {"add", "remove"} THEN "Node identifier" ELSE "Key" IN
         /\ Len(op'.arg) = 0 =>
              /\ op'.ret = Error(what \o " cannot be empty")
              /\ ring' = ring /\ sortedKeys' = sortedKeys
         /\ Len(op'.arg) > MAX_LENGTH =>
              /\ op'.ret = Error(what \o " exceeds maximum length")
              /\ ring' = ring /\ sortedKeys' = sortedKeys
         /\ (Len(op'.arg) >= 1 /\ Len(op'.arg) <= MAX_LENGTH) => op'.ret.kind # "error"
    ]_vars

\* remove was refused on a ring holding two nodes.
C9_Witness ==
  /\ op.name = "remove"
  /\ op.ret.kind = "error"
  /\ size(this) = 2

\* C10: removing a valid identifier that is not in nodes raises no error and
\* leaves the position-to-owner mapping, size and nodes as they were.
C10_RemoveAbsentIsNoOp ==
  \A n \in NodeIds :
    n \notin Elems(nodes(this)) =>
      LET out == remove(this, n) IN
        /\ out.ret = Void
        /\ Mapping(out.self) = Mapping(this)
        /\ size(out.self) = size(this)
        /\ nodes(out.self) = nodes(this)

\* The nodes that own a position of the ring.
Owners(self) == {e.node : e \in Mapping(self)}

\* The sequences of distinct elements of S, and the ring after add of each
\* element of seq in turn.
DistinctSeqs(S) ==
  UNION {{seq \in [1 .. n -> S] : Distinct(seq)} : n \in 0 .. Cardinality(S)}
\* Every order of every set of node identifiers.
NodeOrders == DistinctSeqs(NodeIds)
RECURSIVE AddAll(_, _)
AddAll(self, seq) ==
  IF seq = <<>> THEN self
  ELSE add(AddAll(self, SubSeq(seq, 1, Len(seq) - 1)), seq[Len(seq)]).self
\* The positions the virtual nodes of the nodes of seq hash to.
VirtualPositions(seq) ==
  {hash32[VirtualKey(seq[j], i)] : j \in 1 .. Len(seq), i \in 0 .. (replicas - 1)}
\* The text toString() gives for p positions, n nodes and r replicas.
Stats(p, n, r) ==
  ((((("HashOrbit(positions=" \o ToString(p)) \o " nodes=") \o ToString(n))
     \o " replicas=") \o ToString(r)) \o ")"

\* C11: after adding k distinct valid identifiers to an empty ring, with no
\* remove, size is k and nodes holds exactly those k identifiers, each once.
C11_SizeCountsAddedNodes ==
  ring = <<>> =>
    \A seq \in NodeOrders :
      LET r == AddAll(this, seq) IN
        /\ size(r) = Len(seq)
        /\ Elems(nodes(r)) = Elems(seq)
        /\ Len(nodes(r)) = Len(seq)

\* The current ring is the one that adding the nodes of seq, in that order, to
\* an empty ring builds.
BuiltBy(seq) ==
  /\ Owners(this) \subseteq Elems(seq)
  /\ this = AddAll(constructor(replicas), seq)

\* The calls after which a ring that was built is looked at: the construction,
\* the last add, the restore, and toString() on the ring they left.
BuildSteps == {"constructor", "add", "fromJSON", "toString"}

\* C12 as stated: a ring built by adding N distinct nodes with R replicas holds
\* exactly N * R positions, and toString() reports positions=N*R, nodes=N,
\* replicas=R.
C12_Original ==
  \A seq \in NodeOrders :
    (op.name \in BuildSteps /\ BuiltBy(seq)) =>
      /\ Len(ring) = Len(seq) * replicas
      /\ toString(this).ret = Str(Stats(Len(seq) * replicas, Len(seq), replicas))

\* C12, amended: such a ring holds one position for each distinct value among
\* the N * R virtual-node hashes, N * R of them when the hashes are pairwise
\* distinct, and toString() reports that number of positions, the number of
\* nodes that own a position (N when the hashes are pairwise distinct) and R.
C12_PositionsAreDistinctHashes ==
  \A seq \in NodeOrders :
    (op.name \in BuildSteps /\ BuiltBy(seq)) =>
      LET P == Cardinality(VirtualPositions(seq)) IN
        /\ Len(ring) = P
        /\ P <= Len(seq) * replicas
        /\ toString(this).ret = Str(Stats(P, size(this), replicas))
        /\ op.name = "toString" => op.ret = Str(Stats(P, size(this), replicas))
        /\ P = Len(seq) * replicas =>
              /\ size(this) = Len(seq)
              /\ toString(this).ret = Str(Stats(Len(seq) * replicas, Len(seq), replicas))
\* toString() is called on a ring built from two nodes that both own a
\* position, two of whose virtual nodes share a position.
C12_Witness ==
  /\ op.name = "toString"
  /\ \E seq \in NodeOrders :
       /\ Len(seq) = 2
       /\ BuiltBy(seq)
       /\ size(this) = 2
       /\ Len(ring) < Len(seq) * replicas

\* C13: toJSON() returns exactly the distinct nodes that own a position and the
\* configured replica count, and fromJSON(toJSON(ring)) has the size, the set
\* of nodes and the replica count of ring.
C13_RoundTripPreservesMembership ==
  [][/\ op'.name = "toJSON" =>
          /\ Elems(op'.ret.list) = Owners(this)
          /\ Len(op'.ret.list) = Cardinality(Owners(this))
          /\ op'.ret.num = replicas
     /\ op'.name = "fromJSON" =>
          /\ size(this') = size(this)
          /\ Elems(nodes(this')) = Elems(nodes(this))
          /\ replicas' = replicas]_vars

\* C14: adding the same distinct nodes to an empty ring in any order yields
\* the same mapping from position to owner, so fromJSON gives the same ring
\* whatever the order of snapshot.nodes.
C14_AddOrderIndependent ==
  \A seq1, seq2 \in NodeOrders :
    Elems(seq1) = Elems(seq2) =>
      /\ Mapping(AddAll(constructor(replicas), seq1))
           = Mapping(AddAll(constructor(replicas), seq2))
      /\ Mapping(fromJSON(Json(seq1, replicas)))
           = Mapping(fromJSON(Json(seq2, replicas)))

Lookups == {"get", "getN", "size", "nodes", "toJSON", "toString"}

\* C15: get, getN, size, nodes, toJSON and toString leave the ring, the sorted
\* index and the replica count as they were, and what get(k) or getN(k, c)
\* returned is what the same call returns again before any add or remove.
C15_LookupsAreReadOnly ==
  [][op'.name \in Lookups =>
       /\ ring' = ring
       /\ sortedKeys' = sortedKeys
       /\ replicas' = replicas
       /\ op'.name = "get" => get(this', op'.arg).ret = op'.ret
       /\ op'.name = "getN" => getN(this', op'.arg, op'.count).ret = op'.ret]_vars
\* getN walked a ring of several positions and returned two nodes.
C15_Witness ==
  /\ op.name = "getN"
  /\ Len(sortedKeys) >= 3
  /\ Len(op.ret.list) = 2
  /\ sortedKeys = SortAscending(MapKeys(ring))

\* The ring after remove of each element of seq in turn.
RECURSIVE RemoveAll(_, _)
RemoveAll(self, seq) ==
  IF seq = <<>> THEN self
  ELSE remove(RemoveAll(self, SubSeq(seq, 1, Len(seq) - 1)), seq[Len(seq)]).self
\* What the claim expects of a ring without positions.
EmptyBehaviour(self) ==
  /\ self.sortedKeys = <<>>
  /\ size(self) = 0
  /\ nodes(self) = <<>>
  /\ \A k \in ValidKeys :
       /\ get(self, k).ret = Undefined
       /\ \A c \in Counts : getN(self, k, c).ret = List(<<>>)

\* The calls that build or change a ring: every ring value is first reached by
\* one of them.
Mutations == {"constructor", "add", "remove", "fromJSON"}

\* C16: on a ring that holds no positions, fresh or after every node that owns
\* a position has been removed in any order, get(k) returns undefined without
\* error, getN(k, c) returns the empty sequence, size is 0 and nodes is empty.
C16_EmptyRingBoundary ==
  /\ ring = <<>> =>
       /\ EmptyBehaviour(this)
       /\ (op.name = "get" /\ op.arg \in ValidKeys) => op.ret = Undefined
       /\ (op.name = "getN" /\ op.arg \in ValidKeys) => op.ret = List(<<>>)
       /\ op.name = "size" => op.ret = Num(0)
       /\ op.name = "nodes" => op.ret = List(<<>>)
  /\ \A seq \in NodeOrders :
       (op.name \in Mutations /\ Owners(this) \subseteq Elems(seq)) =>
         LET after == RemoveAll(this, seq) IN
           /\ after.ring = <<>>
           /\ after.sortedKeys = <<>>
           /\ size(after) = 0
           /\ nodes(after) = <<>>
\* get was called with a valid key on a ring that holds no positions.
C16_Witness ==
  /\ op.name = "get"
  /\ op.arg \in ValidKeys
  /\ op.ret = Undefined
  /\ ring = <<>>

\* C17: on a ring that holds positions, get of a valid key returns a node, a
\* member of nodes: never undefined, and never the node a remove just removed.
C17_GetReturnsMember ==
  /\ ring # <<>> =>
       /\ \A k \in ValidKeys :
            /\ Routed(this, k).kind = "string"
            /\ Routed(this, k).str \in Elems(nodes(this))
       /\ (op.name = "get" /\ op.arg \in ValidKeys) =>
            /\ op.ret.kind = "string"
            /\ op.ret.str \in Elems(nodes(this))
  /\ (op.name = "remove" /\ op.ret = Void) =>
       /\ op.arg \notin Elems(nodes(this))
       /\ \A k \in ValidKeys : Routed(this, k) # Str(op.arg)
  /\ \A e \in Mapping(this) : e.pos \in VirtualPositions(<<e.node>>)
\* get was called with a key that hashes past the only position of the ring
\* and returned its owner.
C17_Witness ==
  /\ op.name = "get"
  /\ op.arg \in ValidKeys
  /\ Len(ring) = 1
  /\ hash32[op.arg] > ring[1].pos
  /\ op.ret = Str(ring[1].node)

\* C18: after every add and remove the sorted index is strictly ascending and
\* holds exactly the positions that are keys of the ring mapping.
C18_SortedIndexInvariant ==
  /\ \A i \in 1 .. (Len(sortedKeys) - 1) : sortedKeys[i] < sortedKeys[i + 1]
  /\ Elems(sortedKeys) = PositionsOf(this)
  /\ Len(sortedKeys) = Len(ring)
\* An add or remove left a ring whose insertion order is not ascending.
C18_Witness ==
  /\ op.name \in {"add", "remove"}
  /\ op.ret = Void
  /\ Len(ring) >= 2
  /\ MapKeys(ring) # sortedKeys
  /\ ring[1].pos > ring[2].pos

\* C19: remove(n) never deletes a position whose current owner is another
\* node: an entry owned by m # n, and so m's membership, survives remove(n),
\* also when a virtual node of n shares its position.
C19_RemoveKeepsOtherOwners ==
  [][(op'.name = "remove" /\ op'.ret = Void) =>
       \A e \in Mapping(this) :
         e.node # op'.arg =>
           /\ e \in Mapping(this')
           /\ e.node \in Elems(nodes(this'))]_vars

\* C20: after a successful add(n) each of the R positions hash(n + ":" + i) is
\* in the ring and owned by n, whoever owned it before, no position has two
\* owners, and n is in nodes.
C20_AddOwnsItsPositions ==
  /\ Distinct(MapKeys(ring))
  /\ (op.name = "add" /\ op.ret = Void) =>
       /\ \A i \in 0 .. (replicas - 1) :
            /\ hash32[VirtualKey(op.arg, i)] \in PositionsOf(this)
            /\ MapGet(ring, hash32[VirtualKey(op.arg, i)]) = Str(op.arg)
       /\ op.arg \in Elems(nodes(this))
\* add(n) took over a position that the first node added also hashes to, and
\* that node still owns another position.
C20_Witness ==
  /\ op.name = "add"
  /\ op.ret = Void
  /\ replicas = 2
  /\ Len(ring) >= 2
  /\ ring[1].node = op.arg
  /\ ring[2].node # op.arg
  /\ ring[1].pos \in VirtualPositions(<<ring[2].node>>)

\* C21: the key is validated before the empty-ring and count shortcuts: get
\* and getN with an invalid key fail with an error on every ring, the empty one
\* and every count included, and getN with a valid key and a count <= 0
\* returns the empty sequence on every ring.
C21_ValidationPrecedesShortcuts ==
  /\ (op.name = "get" /\ op.arg \in InvalidIds) => op.ret.kind = "error"
  /\ (op.name = "getN" /\ op.arg \in InvalidIds) => op.ret.kind = "error"
  /\ (op.name = "getN" /\ op.arg \in ValidKeys /\ op.count <= 0) =>
       op.ret = List(<<>>)
  /\ op.name \in Mutations =>
       /\ \A bad \in InvalidIds :
            /\ get(this, bad).ret.kind = "error"
            /\ \A c \in Counts : getN(this, bad, c).ret.kind = "error"
       /\ \A k \in ValidKeys, c \in Counts :
            c <= 0 => getN(this, k, c).ret = List(<<>>)
\* getN was called on an empty ring with an invalid key and count 0, and
\* failed.
C21_Witness ==
  /\ op.name = "getN"
  /\ op.arg \in InvalidIds
  /\ op.count <= 0
  /\ ring = <<>>
  /\ op.ret.kind = "error"

\* ------------------------------------------------- a ring of up to three nodes
\* Three node identifiers, each with a single virtual node, so that a key has
\* two nodes other than the one being added to move between.
ThreeNodeIds == NodeIds \cup {"server-3"}
FewestReplicas == Min(ReplicaOptions)
ThreeNodeDomain ==
  {VirtualKey(n, i) : n \in ThreeNodeIds, i \in 0 .. (FewestReplicas - 1)} \cup ValidKeys

\* Counts getN is asked for: none, and up to one more than there are nodes.
ThreeNodeCounts == (-1) .. (Cardinality(ThreeNodeIds) + 1)

InitThreeNodes ==
  /\ ring = <<>>
  /\ sortedKeys = <<>>
  /\ replicas = FewestReplicas
  /\ hash32 \in HashFunctions(ThreeNodeDomain)
  /\ op = [name |-> "constructor", arg |-> "", count |-> 0, ret |-> Void]

AddOfThree == \E node \in ThreeNodeIds : Call("add", node, 0, add(this, node))

RemoveOfThree == \E node \in ThreeNodeIds : Call("remove", node, 0, remove(this, node))

GetOfThree == \E key \in ValidKeys : Call("get", key, 0, get(this, key))

GetNOfThree ==
  \E key \in ValidKeys, count \in ThreeNodeCounts :
    Call("getN", key, count, getN(this, key, count))

NextThreeNodes ==
  \/ AddOfThree
  \/ RemoveOfThree
  \/ GetOfThree
  \/ GetNOfThree

SpecThreeNodes == InitThreeNodes /\ [][NextThreeNodes]_vars

\* C22: adding a node only moves keys to the new node: on every ring, for
\* every valid identifier n and valid key k, get(k) after add(n) is what it
\* was before add(n), or is n.
C22_AddMovesKeysOnlyToNewNode ==
  \A n \in ThreeNodeIds, k \in ValidKeys :
    \/ Routed(add(this, n).self, k) = Routed(this, k)
    \/ Routed(add(this, n).self, k) = Str(n)
\* A third node was added to a ring of two: one key is now routed to it,
\* another key stays with the node it had.
C22_Witness ==
  /\ op.name = "add"
  /\ size(this) = 3
  /\ ring[3].node = op.arg
  /\ \E k1, k2 \in ValidKeys :
       /\ Routed(this, k1) = Str(op.arg)
       /\ Routed(this, k2) # Str(op.arg)
       /\ Routed(this, k2) = Routed(HashOrbit(SubSeq(ring, 1, 2), SortAscending(MapKeys(SubSeq(ring, 1, 2))), replicas), k2)

\* The owners of all positions in the order a clockwise walk meets them: from
\* the first position at or after the key's hash, or from the lowest position
\* when there is none, through the sorted index and around once.
ClockwiseOwners(self, key) ==
  LET n == Len(self.sortedKeys)
      atOrAfter == {i \in 1 .. n : self.sortedKeys[i] >= hash32[key]}
      start == IF atOrAfter = {} THEN 1 ELSE Min(atOrAfter)
  IN  [j \in 1 .. n |-> OwnerAt(self, self.sortedKeys[((start + j - 2) % n) + 1])]
IsPrefix(s, t) == Len(s) <= Len(t) /\ SubSeq(t, 1, Len(s)) = s

\* C23: getN(k, c) is a prefix of getN(k, c + 1), and for c > 0 it lists
\* the owners in the order in which a clockwise walk from the key's successor
\* position, once around the sorted index, first meets them.
C23_GetNClockwisePrefix ==
  \A k \in ValidKeys :
    LET met == Unique(ClockwiseOwners(this, k)) IN
      /\ \A c \in ThreeNodeCounts :
           /\ IsPrefix(getN(this, k, c).ret.list, getN(this, k, c + 1).ret.list)
           /\ c > 0 => getN(this, k, c).ret.list = SubSeq(met, 1, Minimum(c, Len(met)))
      /\ (op.name = "getN" /\ op.arg = k /\ op.count > 0) =>
           op.ret.list = SubSeq(met, 1, Minimum(op.count, Len(met)))
\* getN returned all three nodes, starting in the middle of the sorted index
\* and wrapping around to its start.
C23_Witness ==
  /\ op.name = "getN"
  /\ op.count >= 3
  /\ Len(op.ret.list) = 3
  /\ Len(sortedKeys) = 3
  /\ sortedKeys[1] < hash32[op.arg]
  /\ hash32[op.arg] <= sortedKeys[2]
  /\ op.ret.list = <<OwnerAt(this, sortedKeys[2]), OwnerAt(this, sortedKeys[3]),
                      OwnerAt(this, sortedKeys[1])>>
====
